---- MODULE Spec2Model ----
(***************************************************************************)
(* Model of the pfsm crate: the event-driven StateMachine<S, E> of         *)
(* src/src/fsm.rs and the direct-transition FSM<T> of src/src/lib.rs.      *)
(*                                                                         *)
(* Option<X> is modelled as a set with at most one element: {} is None     *)
(* and {x} is Some(x).  A HashMap is a function whose DOMAIN is its key    *)
(* set.  A String built by format! is the tuple of its pieces.             *)
(***************************************************************************)
EXTENDS Integers, Sequences, FiniteSets, TLC

(* ------------------------------ bounds -------------------------------- *)

\* number of mutator calls made on a machine
MaxCalls == 3
\* number of entries of the table handed to StateMachine::initialize
MaxEntries == 2
\* length of the edge list handed to FSM::from_schema
MaxEdges == 3
\* number of mutator calls made on a traffic light
MaxScenarioCalls == 5

(* --------------------------- value domains ---------------------------- *)

\* enum TrafficLightState, the S / T the tests instantiate both machines with
States == {"Red", "Yellow", "Green"}

\* enum TrafficLightEvent, the E the tests instantiate StateMachine with
Events == {"RedTimeout", "Yellow2GreenTimeout", "Yellow2RedTimeout", "GreenTimeout"}

\* the events the generated tables are keyed by; the other events of Events
\* are triggered too and occur in no table
TableEvents == {"RedTimeout", "GreenTimeout"}

\* the closure boxed into the entry of key k: one distinct closure per entry
ActionOf(k) == <<"action", k[1], k[2]>>

\* Transition::create
create(next_state, action) == [next_state |-> next_state, action |-> action]

\* the values an entry of key k can take: any next state, with or without action
TransitionsFor(k) == {create(s, a) : s \in States, a \in {{}, {ActionOf(k)}}}

\* the HashMap<(S, E), Transition<S>> values with at most MaxEntries entries
Tables ==
  UNION {{t \in [K -> UNION {TransitionsFor(k) : k \in K}] :
            \A k \in K : t[k] \in TransitionsFor(k)} :
         K \in {K \in SUBSET (States \X TableEvents) : Cardinality(K) <= MaxEntries}}

\* the &[(T, T)] slices of at most MaxEdges edges
EdgeLists == UNION {[1..n -> States \X States] : n \in 0..MaxEdges}

(* ----------------------------- HashMap -------------------------------- *)

\* HashMap::new
EmptyMap == <<>>

\* HashMap::insert: a second insert for the same key overwrites
insert(m, k, v) == [x \in (DOMAIN m) \cup {k} |-> IF x = k THEN v ELSE m[x]]

\* HashMap::get
get(m, k) == IF k \in DOMAIN m THEN {m[k]} ELSE {}

(* ----------------------- fsm.rs: StateMachine ------------------------- *)

\* initialize that moves an initial state the table has no key for to the
\* state of one of its keys
initialize_validating(initial, transitions) ==
  LET froms == {k[1] : k \in DOMAIN transitions}
  IN [state |-> IF froms = {} \/ initial \in froms THEN initial
                ELSE CHOOSE s \in froms : TRUE,
      transitions |-> transitions]

\* StateMachine::initialize
initialize(initial, transitions) == [state |-> initial, transitions |-> transitions]

\* StateMachine::state
StateMachine_state(machine) == machine.state

\* the Err string naming the event only
NoTransitionMsgEventOnly(event, state) ==
  <<"No transition found for event '", event, "'">>

\* the Err string of trigger
NoTransitionMsg(event, state) ==
  <<"No transition found for event '", event, "' from state '", state, "'">>

\* lookup that matches the event of the key and ignores its state
lookup_by_event(machine, key) ==
  LET ks == {k \in DOMAIN machine.transitions : k[2] = key[2]}
  IN IF ks = {} THEN {} ELSE {machine.transitions[CHOOSE k \in ks : TRUE]}

\* lookup that matches the state of the key and ignores its event
lookup_by_state(machine, key) ==
  LET ks == {k \in DOMAIN machine.transitions : k[1] = key[1]}
  IN IF ks = {} THEN {} ELSE {machine.transitions[CHOOSE k \in ks : TRUE]}

\* the transition trigger finds for its key, as an Option
lookup(machine, key) == get(machine.transitions, key)

\* StateMachine::trigger from call to return: the machine it leaves, what it
\* returns and the actions it has run
trigger(machine, event) ==
  LET key == <<machine.state, event>>
      transition == lookup(machine, key)
  IN IF transition = {}
     THEN [machine |-> machine,
           result |-> [kind |-> "Err",
                       msg |-> NoTransitionMsg(event, machine.state)],
           ran |-> <<>>]
     ELSE LET t == CHOOSE t \in transition : TRUE
          IN [machine |-> [machine EXCEPT !.state = t.next_state],
              result |-> [kind |-> "Ok", msg |-> <<>>],
              ran |-> IF t.action = {} THEN <<>>
                      ELSE <<[action |-> CHOOSE a \in t.action : TRUE,
                              state |-> machine.state]>>]

(* -------------------------- lib.rs: FSM ------------------------------- *)

\* new that allows the machine to stay in its initial state
new_with_self_edge(initial) ==
  [state |-> initial, schema |-> insert(EmptyMap, <<initial, initial>>, TRUE)]

\* FSM::new
new(initial) == [state |-> initial, schema |-> EmptyMap]

\* the loop stopping one edge early
RECURSIVE schema_loop_short(_, _, _)
schema_loop_short(s, schema, i) ==
  IF i >= Len(schema) THEN s
  ELSE schema_loop_short(insert(s, schema[i], TRUE), schema, i + 1)

\* the for loop of FSM::from_schema over schema[i..]
RECURSIVE schema_loop(_, _, _)
schema_loop(s, schema, i) ==
  IF i > Len(schema) THEN s
  ELSE schema_loop(insert(s, schema[i], TRUE), schema, i + 1)

\* FSM::from_schema
from_schema(initial, schema) ==
  [state |-> initial, schema |-> schema_loop(EmptyMap, schema, 1)]

\* FSM::state: always Some
FSM_state(machine) == {machine.state}

\* the panic message of change_state (the backquotes that delimit the two
\* states in the text are left out of the pieces)
UnableChangeMsg(state, to_state) ==
  <<"unable change ", state, " -> ", to_state>>

\* the lookup matching the target of the key and ignoring the current state
schema_get_by_target(machine, key) ==
  IF \E k \in DOMAIN machine.schema : k[2] = key[2] THEN {TRUE} ELSE {}

\* the lookup with the pair of the key swapped
schema_get_swapped(machine, key) == get(machine.schema, <<key[2], key[1]>>)

\* the entry change_state finds for its key, as an Option
schema_get(machine, key) == get(machine.schema, key)

(* ------------------------------ state --------------------------------- *)

VARIABLES
  sm,          \* the StateMachine: [state, transitions]
  pc,          \* position inside trigger: "idle" between calls
  call,        \* locals of the current (or last) trigger: key and transition
  result,      \* what the last trigger returned
  ran,         \* the actions run by the current (or last) trigger, each with
               \* the machine state at the moment it ran
  nTriggers,   \* number of trigger calls made
  executed,    \* number of action executions so far
  sm_args,     \* the arguments initialize was called with
  sm_seen,     \* what StateMachine::state returned, if no trigger was called since
  expected,    \* number of triggers whose key had an entry with an action
  shadow,      \* state of a second machine built from the same arguments that
               \* is sent only the events the first one accepted
  fsm,         \* the FSM: [state, schema]
  fcall,       \* the key of the last change_state
  outcome,     \* how the last change_state ended
  nChanges,    \* number of change_state calls made
  fsm_args,    \* the constructor and arguments the FSM was built with
  fsm_seen     \* what FSM::state returned, if change_state was not called since

sm_vars == <<sm, pc, call, result, ran, nTriggers, executed, sm_args,
             sm_seen, expected, shadow>>
fsm_vars == <<fsm, fcall, outcome, nChanges, fsm_args, fsm_seen>>
vars == <<sm, pc, call, result, ran, nTriggers, executed, sm_args,
          sm_seen, expected, shadow,
          fsm, fcall, outcome, nChanges, fsm_args, fsm_seen>>

NoResult == [kind |-> "none", msg |-> <<>>]
Ok == [kind |-> "Ok", msg |-> <<>>]
Err(msg) == [kind |-> "Err", msg |-> msg]

NoOutcome == [kind |-> "none", msg |-> <<>>]
Returned == [kind |-> "returned", msg |-> <<>>]
Panicked(msg) == [kind |-> "panic", msg |-> msg]

(* --------------------------- construction ----------------------------- *)

\* a StateMachine built by initialize and not yet triggered
SMBuilt(initial, transitions) ==
  /\ sm = initialize(initial, transitions)
  /\ sm_args = [initial |-> initial, transitions |-> transitions]
  /\ pc = "idle"
  /\ call = [key |-> <<initial, "none">>, transition |-> {}]
  /\ result = NoResult
  /\ ran = <<>>
  /\ nTriggers = 0
  /\ executed = 0
  /\ sm_seen = {}
  /\ expected = 0
  /\ shadow = initialize(initial, transitions).state

\* an FSM built by new and not yet used
FSMNew(initial) ==
  /\ fsm = new(initial)
  /\ fsm_args = [ctor |-> "new", initial |-> initial, schema |-> <<>>]
  /\ fcall = <<initial, initial>>
  /\ outcome = NoOutcome
  /\ nChanges = 0
  /\ fsm_seen = {}

\* an FSM built by from_schema and not yet used
FSMFromSchema(initial, schema) ==
  /\ fsm = from_schema(initial, schema)
  /\ fsm_args = [ctor |-> "from_schema", initial |-> initial, schema |-> schema]
  /\ fcall = <<initial, initial>>
  /\ outcome = NoOutcome
  /\ nChanges = 0
  /\ fsm_seen = {}

(* ---------------------- StateMachine::trigger ------------------------- *)

\* trigger writing the next state as soon as the transition is found
TriggerWritesFirst(event) ==
  /\ pc = "idle"
  /\ LET key == <<sm.state, event>>
         transition == lookup(sm, key)
     IN /\ call' = [key |-> key, transition |-> transition]
        /\ pc' = IF transition = {} THEN "err"
                 ELSE IF \E t \in transition : t.action # {} THEN "action"
                 ELSE "write"
        /\ sm' = IF transition = {} THEN sm
                 ELSE [sm EXCEPT !.state = (CHOOSE t \in transition : TRUE).next_state]
        /\ expected' = IF \E t \in get(sm.transitions, key) : t.action # {}
                       THEN expected + 1 ELSE expected
  /\ ran' = <<>>
  /\ sm_seen' = {}
  /\ nTriggers' = nTriggers + 1
  /\ UNCHANGED <<result, executed, sm_args, shadow, fsm_vars>>

\* fsm.rs 57-59: the call, the key and the table lookup; result still holds
\* what the call before returned
Trigger(event) ==
  /\ pc = "idle"
  /\ LET key == <<sm.state, event>>
         transition == lookup(sm, key)
     IN /\ call' = [key |-> key, transition |-> transition]
        /\ pc' = IF transition = {} THEN "err"
                 ELSE IF \E t \in transition : t.action # {} THEN "action"
                 ELSE "write"
        /\ expected' = IF \E t \in get(sm.transitions, key) : t.action # {}
                       THEN expected + 1 ELSE expected
  /\ ran' = <<>>
  /\ sm_seen' = {}
  /\ nTriggers' = nTriggers + 1
  /\ UNCHANGED <<sm, result, executed, sm_args, shadow, fsm_vars>>

\* the action block returning Ok itself, before the state is written
RunActionReturns ==
  /\ pc = "action"
  /\ \E t \in call.transition : \E a \in t.action :
       ran' = Append(ran, [action |-> a, state |-> sm.state])
  /\ executed' = executed + 1
  /\ result' = Ok
  /\ pc' = "idle"
  /\ UNCHANGED <<sm, call, nTriggers, sm_args, sm_seen, expected, shadow,
                 fsm_vars>>

\* fsm.rs 60-62: the action of the transition found runs
RunAction ==
  /\ pc = "action"
  /\ \E t \in call.transition : \E a \in t.action :
       ran' = Append(ran, [action |-> a, state |-> sm.state])
  /\ executed' = executed + 1
  /\ pc' = "write"
  /\ UNCHANGED <<sm, call, result, nTriggers, sm_args, sm_seen, expected, shadow,
                 fsm_vars>>

\* the transition taken out of the table (HashMap::remove for HashMap::get)
WriteStateConsumes ==
  /\ pc = "write"
  /\ \E t \in call.transition :
       sm' = [state |-> t.next_state,
              transitions |-> [k \in (DOMAIN sm.transitions) \ {call.key} |->
                                 sm.transitions[k]]]
  /\ result' = Ok
  /\ pc' = "idle"
  /\ shadow' = trigger(initialize(shadow, sm_args.transitions), call.key[2]).machine.state
  /\ UNCHANGED <<call, ran, nTriggers, executed, sm_args, sm_seen, expected,
                 fsm_vars>>

\* the state written only inside the `if let Some(action)` block
WriteStateInsideIf ==
  /\ pc = "write"
  /\ \E t \in call.transition :
       sm' = IF t.action = {} THEN sm ELSE [sm EXCEPT !.state = t.next_state]
  /\ result' = Ok
  /\ pc' = "idle"
  /\ shadow' = trigger(initialize(shadow, sm_args.transitions), call.key[2]).machine.state
  /\ UNCHANGED <<call, ran, nTriggers, executed, sm_args, sm_seen, expected,
                 fsm_vars>>

\* fsm.rs 63-64: the state is written and Ok returned
WriteState ==
  /\ pc = "write"
  /\ \E t \in call.transition : sm' = [sm EXCEPT !.state = t.next_state]
  /\ result' = Ok
  /\ pc' = "idle"
  /\ shadow' = trigger(initialize(shadow, sm_args.transitions), call.key[2]).machine.state
  /\ UNCHANGED <<call, ran, nTriggers, executed, sm_args, sm_seen, expected,
                 fsm_vars>>

\* a rejected trigger putting the machine back into its initial state
ReturnErrResets ==
  /\ pc = "err"
  /\ result' = Err(NoTransitionMsg(call.key[2], sm.state))
  /\ sm' = [sm EXCEPT !.state = sm_args.initial]
  /\ pc' = "idle"
  /\ UNCHANGED <<call, ran, nTriggers, executed, sm_args, sm_seen, expected,
                 shadow, fsm_vars>>

\* a rejected trigger running the action the table has for its event under
\* another state
ReturnErrRunsAction ==
  /\ pc = "err"
  /\ result' = Err(NoTransitionMsg(call.key[2], sm.state))
  /\ LET acts == UNION {t.action : t \in lookup_by_event(sm, call.key)}
     IN /\ ran' = IF acts = {} THEN ran
                  ELSE Append(ran, [action |-> CHOOSE x \in acts : TRUE,
                                    state |-> sm.state])
        /\ executed' = IF acts = {} THEN executed ELSE executed + 1
  /\ pc' = "idle"
  /\ UNCHANGED <<sm, call, nTriggers, sm_args, sm_seen, expected, shadow,
                 fsm_vars>>

\* fsm.rs 67-70: no transition, the Err is returned
ReturnErr ==
  /\ pc = "err"
  /\ result' = Err(NoTransitionMsg(call.key[2], sm.state))
  /\ pc' = "idle"
  /\ UNCHANGED <<sm, call, ran, nTriggers, executed, sm_args, sm_seen, expected,
                 shadow, fsm_vars>>

(* ------------------------ FSM::change_state --------------------------- *)

\* change_state writing the state before the lookup is checked
ChangeStateWritesFirst(to_state) ==
  /\ LET key == <<fsm.state, to_state>>
     IN /\ fcall' = key
        /\ fsm' = [fsm EXCEPT !.state = to_state]
        /\ outcome' = IF schema_get(fsm, key) = {}
                      THEN Panicked(UnableChangeMsg(fsm.state, to_state))
                      ELSE Returned
  /\ nChanges' = nChanges + 1
  /\ fsm_seen' = {}
  /\ UNCHANGED <<fsm_args, sm_vars>>

\* change_state returning at once when asked for the current state
ChangeStateAllowsStay(to_state) ==
  /\ LET key == <<fsm.state, to_state>>
     IN /\ fcall' = key
        /\ IF to_state # fsm.state /\ schema_get(fsm, key) = {}
           THEN /\ outcome' = Panicked(UnableChangeMsg(fsm.state, to_state))
                /\ fsm' = fsm
           ELSE /\ outcome' = Returned
                /\ fsm' = [fsm EXCEPT !.state = to_state]
  /\ nChanges' = nChanges + 1
  /\ fsm_seen' = {}
  /\ UNCHANGED <<fsm_args, sm_vars>>

\* lib.rs 38-47: expect panics on a missing key, before the state is written;
\* a caller that catches the unwind keeps the machine
ChangeState(to_state) ==
  /\ LET key == <<fsm.state, to_state>>
     IN /\ fcall' = key
        /\ IF schema_get(fsm, key) = {}
           THEN /\ outcome' = Panicked(UnableChangeMsg(fsm.state, to_state))
                /\ fsm' = fsm
           ELSE /\ outcome' = Returned
                /\ fsm' = [fsm EXCEPT !.state = to_state]
  /\ nChanges' = nChanges + 1
  /\ fsm_seen' = {}
  /\ UNCHANGED <<fsm_args, sm_vars>>

(* ------------------------------ state() ------------------------------- *)

\* state() handing the state out and leaving the initial state behind
StateCallTakes ==
  /\ pc = "idle"
  /\ sm_seen' = {StateMachine_state(sm)}
  /\ sm' = [sm EXCEPT !.state = sm_args.initial]
  /\ UNCHANGED <<pc, call, result, ran, nTriggers, executed, sm_args,
                 expected, shadow, fsm_vars>>

\* fsm.rs 74-77: state(&self) is called between two triggers (trigger holds
\* the machine by &mut self while it runs)
StateCall ==
  /\ pc = "idle"
  /\ sm_seen' = {StateMachine_state(sm)}
  /\ UNCHANGED <<sm, pc, call, result, ran, nTriggers, executed, sm_args,
                 expected, shadow, fsm_vars>>

\* lib.rs 18-21: state(&self) is called between two change_state calls
FSMStateCall ==
  /\ fsm_seen' = FSM_state(fsm)
  /\ UNCHANGED <<fsm, fcall, outcome, nChanges, fsm_args, sm_vars>>

(* -------------------------- specifications ---------------------------- *)

\* the event-driven machine, for every initial state and table
InitSM ==
  /\ \E initial \in States : \E transitions \in Tables : SMBuilt(initial, transitions)
  /\ FSMNew("Red")

NextSM ==
  \/ nTriggers < MaxCalls /\ \E event \in Events : Trigger(event)
  \/ RunAction
  \/ WriteState
  \/ ReturnErr
  \/ StateCall

SpecSM == InitSM /\ [][NextSM]_vars

\* the direct-transition machine, for every constructor, initial state and
\* edge list
InitFSM ==
  /\ SMBuilt("Red", EmptyMap)
  /\ \E initial \in States :
       \/ FSMNew(initial)
       \/ \E schema \in EdgeLists : FSMFromSchema(initial, schema)

NextFSM ==
  \/ nChanges < MaxCalls /\ \E to_state \in States : ChangeState(to_state)
  \/ FSMStateCall

SpecFSM == InitFSM /\ [][NextFSM]_vars

\* either machine: every run uses one of the two and leaves the other as built
Init == InitSM \/ InitFSM

Next ==
  \/ FSMNew("Red") /\ NextSM
  \/ SMBuilt("Red", EmptyMap) /\ NextFSM

Spec == Init /\ [][Next]_vars

\* fsm.rs 123-162: the table of create_traffic_light
create_traffic_light ==
  LET t0 == EmptyMap
      t1 == insert(t0, <<"Red", "RedTimeout">>,
                   create("Yellow", {ActionOf(<<"Red", "RedTimeout">>)}))
      t2 == insert(t1, <<"Yellow", "Yellow2GreenTimeout">>,
                   create("Green", {ActionOf(<<"Yellow", "Yellow2GreenTimeout">>)}))
      t3 == insert(t2, <<"Green", "GreenTimeout">>,
                   create("Yellow", {ActionOf(<<"Green", "GreenTimeout">>)}))
      t4 == insert(t3, <<"Yellow", "Yellow2RedTimeout">>,
                   create("Red", {ActionOf(<<"Yellow", "Yellow2RedTimeout">>)}))
  IN t4

\* lib.rs 108-116: the edge list of get_schema
get_schema ==
  <<(<<"Red", "Yellow">>), (<<"Yellow", "Green">>),
    (<<"Green", "Yellow">>), (<<"Yellow", "Red">>)>>

\* the two traffic lights of the tests, each driven by any sequence of calls
InitTL ==
  /\ SMBuilt("Red", create_traffic_light)
  /\ FSMFromSchema("Red", get_schema)

NextTL ==
  \/ nTriggers < MaxScenarioCalls /\ \E event \in Events : Trigger(event)
  \/ RunAction
  \/ WriteState
  \/ ReturnErr
  \/ nChanges < MaxScenarioCalls /\ \E to_state \in States : ChangeState(to_state)

SpecTL == InitTL /\ [][NextTL]_vars

(* ------------------------------ helpers ------------------------------- *)

\* the elements of a sequence
Range(seq) == {seq[i] : i \in 1..Len(seq)}

\* a sequence back to front
Reverse(seq) == [i \in 1..Len(seq) |-> seq[Len(seq) + 1 - i]]

\* the states a set R of states leads to along the entries of an event table
RECURSIVE ReachableByTable(_, _)
ReachableByTable(R, table) ==
  LET N == R \cup {table[k].next_state : k \in {k \in DOMAIN table : k[1] \in R}}
  IN IF N = R THEN R ELSE ReachableByTable(N, table)

\* the states a set R of states leads to along a set of edges
RECURSIVE ReachableByEdges(_, _)
ReachableByEdges(R, edges) ==
  LET N == R \cup {e[2] : e \in {e \in edges : e[1] \in R}}
  IN IF N = R THEN R ELSE ReachableByEdges(N, edges)

\* a trigger has returned
TriggerReturned == pc = "idle" /\ nTriggers > 0

(* ------------------- claims on the event-driven machine --------------- *)

\* C1: when (S, E) is not a key of the table, trigger(E) called in state S
\* returns the Err outcome, never Ok, and state() is still S afterwards.
C1_NoTransitionIsErr ==
  (TriggerReturned /\ call.key \notin DOMAIN sm.transitions) =>
    /\ result.kind = "Err"
    /\ StateMachine_state(sm) = call.key[1]

\* a trigger was rejected by a non-empty table that has the event under
\* another state
C1_Witness ==
  /\ TriggerReturned
  /\ call.key \notin DOMAIN sm.transitions
  /\ \E k \in DOMAIN sm.transitions : k[2] = call.key[2]
  /\ result.kind = "Err"

\* C2: when (S, E) maps to (S2, action), trigger(E) called in state S returns
\* Ok, has run that entry's action exactly once if it has one and no action at
\* all if it has none, and state() is S2 afterwards.
C2_TransitionTaken ==
  (TriggerReturned /\ call.key \in DOMAIN sm.transitions) =>
    LET t == sm.transitions[call.key]
    IN /\ result = Ok
       /\ StateMachine_state(sm) = t.next_state
       /\ Len(ran) = Cardinality(t.action)
       /\ \A i \in 1..Len(ran) : ran[i].action \in t.action

\* an entry without action that changes the state was taken
C2_Witness ==
  /\ TriggerReturned
  /\ call.key \in DOMAIN sm.transitions
  /\ sm.transitions[call.key].action = {}
  /\ sm.state # call.key[1]
  /\ result = Ok

\* an entry with an action that keeps the state was taken
C2_WitnessSelfLoop ==
  /\ TriggerReturned
  /\ call.key \in DOMAIN sm.transitions
  /\ sm.transitions[call.key].action # {}
  /\ sm.transitions[call.key].next_state = call.key[1]
  /\ Len(ran) = 1

\* C5: inside one trigger the action runs while the current state is still
\* the state S the call started in, and the state is written only after the
\* action of the entry (if it has one) has run.
C5_ActionBeforeWrite ==
  /\ [](/\ pc = "action" => sm.state = call.key[1]
        /\ \A i \in 1..Len(ran) : ran[i].state = call.key[1])
  /\ [][sm'.state # sm.state =>
          /\ pc = "write"
          /\ \A t \in call.transition : Len(ran) = Cardinality(t.action)]_vars

\* an action has run and the state it ran in differs from the state written
\* afterwards
C5_Witness ==
  /\ TriggerReturned
  /\ Len(ran) = 1
  /\ ran[1].state = call.key[1]
  /\ sm.state # call.key[1]

\* C6: the state changes only by a trigger(E) with (S, E) -> S2 in the table,
\* so the current state is always the initial state or a state reachable from
\* it through table entries.
C6_OnlyDeclaredTransitions ==
  /\ [](sm.state \in ReachableByTable({sm_args.initial}, sm_args.transitions))
  /\ [][sm'.state # sm.state =>
          /\ call.key[1] = sm.state
          /\ call.key \in DOMAIN sm_args.transitions
          /\ sm_args.transitions[call.key].next_state = sm'.state]_vars

\* the machine has left its initial state and a later trigger was rejected
C6_Witness ==
  /\ TriggerReturned
  /\ nTriggers >= 2
  /\ sm.state # sm_args.initial
  /\ result.kind = "Err"

\* C8: initialize yields a machine whose state() is initial_state and whose
\* table is the one given, whatever the table is.
C8_InitializeKeepsArguments ==
  nTriggers = 0 =>
    /\ StateMachine_state(sm) = sm_args.initial
    /\ sm.transitions = sm_args.transitions

\* a machine was built from a table that does not mention the initial state
C8_Witness ==
  /\ nTriggers = 0
  /\ sm.transitions # EmptyMap
  /\ \A k \in DOMAIN sm.transitions : k[1] # sm_args.initial
  /\ StateMachine_state(sm) = sm_args.initial

\* a machine was built from the empty table
C8_WitnessEmpty ==
  /\ nTriggers = 0
  /\ sm.transitions = EmptyMap
  /\ StateMachine_state(sm) \in States \ {"Red"}

(* ---------------- claims on the direct-transition machine ------------- *)

\* a change_state call has ended
ChangeEnded == nChanges > 0

\* C3 as stated: when (S, S2) is not in the schema, change_state(S2) called
\* in state S panics and does not leave the machine in state S2.
C3_InvalidChangeNotInTarget ==
  (ChangeEnded /\ fcall \notin DOMAIN fsm.schema) =>
    /\ outcome.kind = "panic"
    /\ FSM_state(fsm) # {fcall[2]}

\* C3 amended: when (S, S2) is not in the schema, change_state(S2) called in
\* state S panics and leaves the current state S unchanged, so the machine is
\* in S2 afterwards only if S2 = S.
C3_InvalidChangePanics ==
  (ChangeEnded /\ fcall \notin DOMAIN fsm.schema) =>
    /\ outcome.kind = "panic"
    /\ FSM_state(fsm) = {fcall[1]}
    /\ (fcall[2] # fcall[1] => FSM_state(fsm) # {fcall[2]})

\* a move to another state was refused by a schema that has an edge into
\* that state
C3_Witness ==
  /\ ChangeEnded
  /\ fcall \notin DOMAIN fsm.schema
  /\ fcall[1] # fcall[2]
  /\ \E k \in DOMAIN fsm.schema : k[2] = fcall[2]
  /\ outcome.kind = "panic"

\* C4: when (S, S2) is in the schema, change_state(S2) called in state S
\* returns normally and state() is S2 afterwards.
C4_ValidChangeCommits ==
  (ChangeEnded /\ fcall \in DOMAIN fsm.schema) =>
    /\ outcome = Returned
    /\ FSM_state(fsm) = {fcall[2]}

\* a move along an edge whose reverse is not in the schema was made
C4_Witness ==
  /\ ChangeEnded
  /\ fcall \in DOMAIN fsm.schema
  /\ fcall[1] # fcall[2]
  /\ <<fcall[2], fcall[1]>> \notin DOMAIN fsm.schema
  /\ outcome = Returned
  /\ fsm.state = fcall[2]

\* C7: every change of the current state from S to S2 is along an edge
\* (S, S2) of the schema given at construction, the current state is always
\* the initial state or reachable from it along edges, and a refused move
\* never changes the current state.
C7_OnlySchemaEdges ==
  /\ [](fsm.state \in ReachableByEdges({fsm_args.initial}, Range(fsm_args.schema)))
  /\ [][fsm'.state # fsm.state =>
          <<fsm.state, fsm'.state>> \in Range(fsm_args.schema)]_vars
  /\ [][(nChanges' # nChanges /\ outcome'.kind = "panic") =>
          fsm'.state = fsm.state]_vars

\* the machine has moved along an edge and a later move was refused
C7_Witness ==
  /\ nChanges >= 2
  /\ fsm.state # fsm_args.initial
  /\ outcome.kind = "panic"

\* C9: a machine built by new has an empty table and the given initial state;
\* every change_state on it panics and state() stays the initial state.
C9_NewAllowsNoMove ==
  fsm_args.ctor = "new" =>
    /\ fsm.schema = EmptyMap
    /\ FSM_state(fsm) = {fsm_args.initial}
    /\ (ChangeEnded => outcome.kind = "panic")

\* a machine built by new has refused several moves, the last one to another
\* state
C9_Witness ==
  /\ fsm_args.ctor = "new"
  /\ nChanges >= 2
  /\ fcall[2] # fsm_args.initial
  /\ outcome.kind = "panic"

\* C10: the table from_schema builds holds exactly the pairs of the edge
\* list, a move is accepted iff its pair occurs in the list, and the table is
\* the same for the list reversed and for the list with every edge repeated.
C10_SchemaIsEdgeSet ==
  fsm_args.ctor = "from_schema" =>
    /\ DOMAIN fsm.schema = Range(fsm_args.schema)
    /\ (ChangeEnded => (outcome = Returned <=> fcall \in Range(fsm_args.schema)))
    /\ fsm.schema = from_schema(fsm_args.initial, Reverse(fsm_args.schema)).schema
    /\ fsm.schema =
         from_schema(fsm_args.initial, fsm_args.schema \o fsm_args.schema).schema

\* a machine built from a list with a duplicate edge accepted a move along
\* another edge of the list
C10_Witness ==
  /\ fsm_args.ctor = "from_schema"
  /\ \E i, j \in 1..Len(fsm_args.schema) : i < j /\ fsm_args.schema[i] = fsm_args.schema[j]
  /\ Cardinality(Range(fsm_args.schema)) >= 2
  /\ ChangeEnded
  /\ outcome = Returned

(* ----------------------- claims on the traffic lights ----------------- *)

\* the last trigger was called with event in state from, returned Ok and left
\* the machine in state to
TLAccepts(from, event, to) ==
  call.key = <<from, event>> => (result = Ok /\ StateMachine_state(sm) = to)

\* C11: on the event-driven traffic light started in Red, RedTimeout leads to
\* Yellow, Yellow2GreenTimeout to Green, GreenTimeout to Yellow and
\* Yellow2RedTimeout to Red, each returning Ok; GreenTimeout in Red is
\* rejected and the state stays Red; the state never goes from Red to Green nor
\* from Green to Red in one step; every reachable state accepts some event.
C11_TrafficLightEvents ==
  /\ [](TriggerReturned =>
          /\ TLAccepts("Red", "RedTimeout", "Yellow")
          /\ TLAccepts("Yellow", "Yellow2GreenTimeout", "Green")
          /\ TLAccepts("Green", "GreenTimeout", "Yellow")
          /\ TLAccepts("Yellow", "Yellow2RedTimeout", "Red")
          /\ (call.key = <<"Red", "GreenTimeout">> =>
                (result.kind = "Err" /\ StateMachine_state(sm) = "Red")))
  /\ [](\E event \in Events : trigger(sm, event).result.kind = "Ok")
  /\ [][/\ ~(sm.state = "Red" /\ sm'.state = "Green")
        /\ ~(sm.state = "Green" /\ sm'.state = "Red")]_vars

\* four triggers were accepted, the light is back in Red and GreenTimeout was
\* then rejected
C11_Witness ==
  /\ TriggerReturned
  /\ nTriggers = 5
  /\ executed = 4
  /\ call.key = <<"Red", "GreenTimeout">>
  /\ result.kind = "Err"
  /\ sm.state = "Red"

\* the last change_state asked for state to in state from, returned and left
\* the machine in state to
TLMoves(from, to) ==
  fcall = <<from, to>> => (outcome = Returned /\ FSM_state(fsm) = {to})

\* the last change_state asked for state to in state from and panicked, the
\* machine staying in state from
TLRefuses(from, to) ==
  fcall = <<from, to>> => (outcome.kind = "panic" /\ FSM_state(fsm) = {from})

\* C12: on the direct traffic light started in Red, the moves Red-Yellow,
\* Yellow-Green, Green-Yellow and Yellow-Red succeed and end in their target,
\* change_state(Red) in Green and change_state(Green) in Red panic, and in
\* every reachable state the accepted targets are exactly the schema
\* successors of the current state.
C12_TrafficLightDirect ==
  /\ ChangeEnded =>
       /\ TLMoves("Red", "Yellow")
       /\ TLMoves("Yellow", "Green")
       /\ TLMoves("Green", "Yellow")
       /\ TLMoves("Yellow", "Red")
       /\ TLRefuses("Green", "Red")
       /\ TLRefuses("Red", "Green")
       /\ (outcome = Returned <=> fcall \in Range(get_schema))
  /\ {to \in States : schema_get(fsm, <<fsm.state, to>>) # {}}
       = {e[2] : e \in {e \in Range(get_schema) : e[1] = fsm.state}}

\* after Red-Yellow and Yellow-Green, change_state(Red) was refused in Green
C12_Witness ==
  /\ nChanges = 3
  /\ fcall = <<"Green", "Red">>
  /\ outcome.kind = "panic"
  /\ fsm.state = "Green"

\* the cycle Yellow, Green, Yellow, Red was made and the light is in Red again
C12_WitnessCycle ==
  /\ nChanges = 4
  /\ fcall = <<"Yellow", "Red">>
  /\ outcome = Returned
  /\ fsm.state = "Red"

(* -------------------- further claims on StateMachine ------------------ *)

\* C13: the Err of a rejected trigger(E) names the event E and the state S
\* the machine was in when called, which is still its state.
C13_ErrNamesStateAndEvent ==
  (TriggerReturned /\ call.key \notin DOMAIN sm.transitions) =>
    /\ result.kind = "Err"
    /\ Len(result.msg) = 5
    /\ result.msg[2] = call.key[2]
    /\ result.msg[4] = call.key[1]
    /\ result.msg[4] = StateMachine_state(sm)

\* a trigger was rejected in a state other than the initial one
C13_Witness ==
  /\ TriggerReturned
  /\ call.key \notin DOMAIN sm.transitions
  /\ call.key[1] # sm_args.initial
  /\ result.kind = "Err"
  /\ result.msg[4] = call.key[1]

(* ---------------------- claims on both machines ----------------------- *)

\* C14: in both machines a state() call made after another one, with no
\* trigger / change_state in between, returns the same value, and a state()
\* call changes neither the current state nor the table.
C14_StateIsPure ==
  /\ [](sm_seen # {} => sm_seen = {StateMachine_state(sm)})
  /\ [](fsm_seen # {} => fsm_seen = FSM_state(fsm))
  /\ [][sm_seen' # {} => (sm' = sm /\ (sm_seen # {} => sm_seen' = sm_seen))]_vars
  /\ [][fsm_seen' # {} => (fsm' = fsm /\ (fsm_seen # {} => fsm_seen' = fsm_seen))]_vars

\* state() was called on an event-driven machine that has left its initial
\* state
C14_Witness ==
  /\ sm_seen = {sm.state}
  /\ sm.state # sm_args.initial
  /\ nTriggers >= 2

\* state() was called on a direct machine that has left its initial state
C14_WitnessDirect ==
  /\ fsm_seen = {fsm.state}
  /\ fsm.state # fsm_args.initial
  /\ nChanges >= 2

\* the last trigger is applied as a whole or not at all: the action of the
\* entry has run and the next state is written, or nothing has run and the
\* state is the one the call found
TriggerWhole ==
  LET found == get(sm_args.transitions, call.key)
  IN IF found = {}
     THEN ran = <<>> /\ sm.state = call.key[1] /\ result.kind = "Err"
     ELSE \A t \in found :
            /\ Len(ran) = Cardinality(t.action)
            /\ sm.state = t.next_state
            /\ result = Ok

\* the last change_state is applied as a whole or not at all
ChangeWhole ==
  \/ outcome = Returned /\ fsm.state = fcall[2]
  \/ outcome.kind = "panic" /\ fsm.state = fcall[1]

\* C15: at every point where a caller can look at a machine (no trigger is
\* running, as trigger holds the machine exclusively), the last trigger and
\* the last change_state are applied as a whole or not at all; in particular
\* no action has run while the state is still the old one.
C15_NoPartialTransition ==
  /\ (pc = "idle" /\ nTriggers > 0) => (TriggerWhole /\ executed = expected)
  /\ sm_seen # {} => pc = "idle"
  /\ ChangeEnded => ChangeWhole

\* a caller has looked at an event-driven machine after a trigger that ran an
\* action and changed the state
C15_Witness ==
  /\ sm_seen = {sm.state}
  /\ Len(ran) = 1
  /\ sm.state # call.key[1]
  /\ result = Ok

\* C16: no trigger, change_state or state() call adds, removes or rewrites a
\* table entry: the table of each machine is always the one it was built
\* with.
C16_TableReadOnly ==
  /\ [](sm.transitions = sm_args.transitions)
  /\ [](fsm.schema = IF fsm_args.ctor = "new"
                       THEN new(fsm_args.initial).schema
                       ELSE from_schema(fsm_args.initial, fsm_args.schema).schema)
  /\ [][sm'.transitions = sm.transitions /\ fsm'.schema = fsm.schema]_vars

\* accepted and rejected triggers and a state() call were made on a machine
\* with a non-empty table
C16_Witness ==
  /\ sm.transitions # EmptyMap
  /\ nTriggers >= 2
  /\ executed >= 1
  /\ result.kind = "Err"
  /\ sm_seen # {}

\* successful and panicking change_state calls were made on a machine with a
\* non-empty schema
C16_WitnessDirect ==
  /\ fsm.schema # EmptyMap
  /\ nChanges >= 2
  /\ fsm.state # fsm_args.initial
  /\ outcome.kind = "panic"
  /\ fsm_seen # {}

(* ------------------ further claims on StateMachine (2) ---------------- *)

\* the second machine, which receives only the accepted events
ShadowMachine == initialize(shadow, sm_args.transitions)

\* C17: a rejected trigger changes nothing and ends its call without running
\* anything; the machine that is sent only the accepted events accepts each
\* of them, runs the same actions, and is always in the same state; a trigger
\* that finds a transition right after a rejected one returns Ok and moves
\* to the entry's next state.
C17_RejectedLeavesNoTrace ==
  /\ [](shadow = sm.state)
  /\ [][pc = "err" =>
          /\ sm' = sm
          /\ executed' = executed
          /\ ran' = <<>>
          /\ pc' = "idle"]_vars
  /\ [][(pc = "write" /\ pc' = "idle") =>
          LET r == trigger(ShadowMachine, call.key[2])
          IN /\ r.result.kind = "Ok"
             /\ r.ran = ran
             /\ r.machine.state = sm'.state]_vars
  /\ [][(pc = "write" /\ result.kind = "Err") =>
          /\ result' = Ok
          /\ \A t \in get(sm_args.transitions, call.key) : sm'.state = t.next_state]_vars

\* a trigger was rejected away from the initial state and the next trigger has
\* found a transition to another state and run its action
C17_Witness ==
  /\ pc = "write"
  /\ result.kind = "Err"
  /\ Len(ran) = 1
  /\ sm.state # sm_args.initial
  /\ \E t \in call.transition : t.next_state # sm.state

\* C18: a trigger whose key is not in the table runs no action, and the
\* number of action executions is the number of triggers so far whose key
\* had an entry with an action.
C18_RejectedRunsNoAction ==
  /\ []((TriggerReturned /\ call.key \notin DOMAIN sm.transitions) => ran = <<>>)
  /\ [](pc = "idle" => executed = expected)
  /\ [][executed' # executed =>
          /\ call.key \in DOMAIN sm.transitions
          /\ sm.transitions[call.key].action # {}
          /\ executed' = executed + 1]_vars

\* a trigger was rejected for an event whose entry under another state has an
\* action, after a trigger that ran an action
C18_Witness ==
  /\ TriggerReturned
  /\ call.key \notin DOMAIN sm.transitions
  /\ \E k \in DOMAIN sm.transitions :
       k[2] = call.key[2] /\ sm.transitions[k].action # {}
  /\ executed >= 1
  /\ executed < nTriggers
  /\ ran = <<>>

(* ------------------------ further claims on FSM ----------------------- *)

\* C19: change_state(S) called in state S panics unless the pair (S, S) is
\* among the edges the machine was built from, and returns, leaving the state
\* S, exactly when it is.
C19_NoImplicitStay ==
  (ChangeEnded /\ fcall[1] = fcall[2]) =>
    /\ outcome = Returned <=> fcall \in Range(fsm_args.schema)
    /\ outcome.kind = "panic" <=> fcall \notin Range(fsm_args.schema)
    /\ FSM_state(fsm) = {fcall[1]}

\* a machine with an edge out of its state refused to stay in that state
C19_Witness ==
  /\ ChangeEnded
  /\ fcall[1] = fcall[2]
  /\ \E e \in Range(fsm_args.schema) : e[1] = fcall[1]
  /\ outcome.kind = "panic"

\* a machine with the edge (S, S) stayed in S
C19_WitnessAccepted ==
  /\ ChangeEnded
  /\ fcall[1] = fcall[2]
  /\ fcall \in Range(fsm_args.schema)
  /\ outcome = Returned

(* --------------------- the two machines side by side ------------------ *)

\* the event table that stands for a list of edges: the events are the target
\* states, and the entry of (a, b) leads to b and has no action
TableOfEdges(edges) == [k \in Range(edges) |-> create(k[2], {})]

\* a direct machine and an event-driven machine built from the same initial
\* state and the same edges
InitPair ==
  \E initial \in States : \E schema \in EdgeLists :
    /\ FSMFromSchema(initial, schema)
    /\ SMBuilt(initial, TableOfEdges(schema))

\* every request is made of the direct machine and then of the event-driven
\* one
NextPair ==
  \/ /\ nChanges < MaxCalls
     /\ pc = "idle"
     /\ nTriggers = nChanges
     /\ \E to_state \in States : ChangeState(to_state)
  \/ /\ nTriggers < nChanges
     /\ Trigger(fcall[2])
  \/ WriteState
  \/ ReturnErr

SpecPair == InitPair /\ [][NextPair]_vars

\* both machines have answered the same requests
PairAnswered == pc = "idle" /\ nTriggers = nChanges

\* C20: a direct machine built by from_schema(init, edges) and an
\* event-driven machine built by initialize(init, table), with the target
\* states as events and the table {(a, b) -> (b, no action)}, answer every
\* request alike (Ok against return, Err against panic) and are in the same
\* state after every request.
C20_DirectIsEventVariant ==
  PairAnswered =>
    /\ StateMachine_state(sm) = fsm.state
    /\ FSM_state(fsm) = {sm.state}
    /\ nChanges > 0 =>
         /\ call.key = fcall
         /\ result = Ok <=> outcome = Returned
         /\ result.kind = "Err" <=> outcome.kind = "panic"

\* both machines have moved and then both have refused the same request
C20_Witness ==
  /\ PairAnswered
  /\ nChanges >= 2
  /\ sm.state # sm_args.initial
  /\ fsm.state = sm.state
  /\ result.kind = "Err"
  /\ outcome.kind = "panic"

====
